---- MODULE Spec2Model ----
(***************************************************************************)
(* Model of pdf_repair.py: main() and build_repaired_pdf(), the per-page   *)
(* repair loop (classify, copy / OCR / image fallback, blank pruning), the *)
(* RepairReport lists and the final metadata / save / report stages.       *)
(* The document engine (fitz) and the OCR engine (pytesseract) are         *)
(* external: each call into them either returns or raises, chosen          *)
(* nondeterministically.  Timestamps of report entries are left out.       *)
(***************************************************************************)
EXTENDS Integers, Sequences, FiniteSets, TLC

VARIABLES
    pc,               \* position of main(): the stage about to run
    src_doc,          \* the source document: one extracted text per page
    use_ocr,          \* args.ocr
    remove_blank,     \* args.remove_blank
    extract_images,   \* bool(args.extract_images)
    ocr_available,    \* pytesseract is not None (import at lines 48-52)
    working_input,    \* "none" | "inp" | "resaved"
    i,                \* loop index of "for i in range(len(src_doc))" (0-based)
    page_info,        \* the dict page_info of the current iteration
    new_doc,          \* the output document: sequence of pages
    actions,          \* report.data["actions"]
    errors,           \* report.data["errors"]
    pages,            \* report.data["pages"]
    report_file,      \* what json.dump wrote: <<>> (nothing yet) or <<data>>
    output_file,      \* what new_doc.save wrote: <<>> or <<pages>>
    calls,            \* history: how often the external steps were called
    it,               \* history: what the current iteration did
    hist,             \* history: one record per finished iteration
    faults,           \* history: number of failures of external steps so far
    src_meta,         \* src_doc.metadata: a dict, keys may be missing
    out_meta          \* what new_doc.set_metadata was given: <<>> or <<dict>>

vars == <<pc, src_doc, use_ocr, remove_blank, extract_images, ocr_available,
          working_input, i, page_info, new_doc, actions, errors, pages,
          report_file, output_file, calls, it, hist, faults, src_meta,
          out_meta>>

-----------------------------------------------------------------------------
(* Bounds *)

MaxPages == 2

MaxFaults == 2

Whitespace == {" ", "\n"}

\* Texts get_text returns for a source page: whitespace only (a page without
\* text), plain text, text padded by whitespace.
Texts == { <<"\n">>, <<"a">>, <<" ", "a", "\n">> }

\* Text layer of a page produced by the OCR engine: nothing or something.
OcrTexts == { <<>>, <<"a">> }

Docs == UNION { [1..n -> Texts] : n \in 0..MaxPages }

-----------------------------------------------------------------------------
(* str.strip() *)

RECURSIVE lstrip(_)
lstrip(s) == IF s = <<>> THEN <<>>
             ELSE IF Head(s) \in Whitespace THEN lstrip(Tail(s)) ELSE s

RECURSIVE rstrip(_)
rstrip(s) == IF s = <<>> THEN <<>>
             ELSE IF s[Len(s)] \in Whitespace
                  THEN rstrip(SubSeq(s, 1, Len(s) - 1)) ELSE s

strip(s) == rstrip(lstrip(s))

\* page_has_text: True iff get_text succeeded and txt.strip() is non-empty
page_has_text(txt, extract_ok) == extract_ok /\ txt # <<>> /\ strip(txt) # <<>>

\* len(page.get_text("text") or "")
text_chars_trimmed(txt) == Len(strip(txt))

text_chars(txt) == Len(txt)

-----------------------------------------------------------------------------
(* RepairReport *)

Msg(m, n) == [msg |-> m, n |-> n]

add_action(log, m, n) == Append(log, Msg(m, n))

add_error(log, m, n) == Append(log, Msg(m, n))

add_page_entry(log, page_num, entry) == Append(log, ("page" :> page_num) @@ entry)

report_data == [actions |-> actions, errors |-> errors, pages |-> pages]

-----------------------------------------------------------------------------
(* The output document *)

OutPage(src, kind, txt) == [src |-> src, kind |-> kind, text |-> txt]

insert_front(doc, p) == <<p>> \o doc

\* insert_pdf / new_page append at the end of the document
insert_page(doc, p) == Append(doc, p)

delete_first(doc) == Tail(doc)

\* delete_page(-1)
delete_last(doc) == SubSeq(doc, 1, Len(doc) - 1)

-----------------------------------------------------------------------------
(* Metadata, lines 284-297 *)

Keys == {"title", "author", "subject", "keywords", "creator", "producer"}

\* Python's None, the answer of dict.get for a missing key
None == "<None>"

\* Every metadata dict: each key is missing, empty, or set; a set key holds
\* its own name, so that a value taken from the other key shows.
MetaDicts ==
    { [k \in {x \in Keys : c[x] # "missing"} |-> IF c[k] = "empty" THEN "" ELSE k] :
        c \in [Keys -> {"missing", "empty", "set"}] }

\* The metadata of the source document of the runs of Spec
SpecMeta == [title |-> "title", author |-> "", producer |-> "producer"]

\* meta.get(k)
get(meta, k) == IF k \in DOMAIN meta THEN meta[k] ELSE None

\* a or b
Or(a, b) == IF a \in {None, ""} THEN b ELSE a

meta_fixed_own_only(meta) ==
    [title    |-> Or(get(meta, "title"), "stem (repaired)"),
     author   |-> Or(get(meta, "author"), "RepairedByScript"),
     subject  |-> Or(get(meta, "subject"), ""),
     keywords |-> Or(get(meta, "keywords"), ""),
     creator  |-> Or(get(meta, "creator"), "pdf_repair.py"),
     producer |-> Or(get(meta, "producer"), "")]

\* lines 289-296
meta_fixed(meta) ==
    [title    |-> Or(get(meta, "title"), "stem (repaired)"),
     author   |-> Or(get(meta, "author"), "RepairedByScript"),
     subject  |-> Or(get(meta, "subject"), ""),
     keywords |-> Or(get(meta, "keywords"), ""),
     creator  |-> Or(Or(get(meta, "creator"), get(meta, "producer")), "pdf_repair.py"),
     producer |-> Or(Or(get(meta, "producer"), get(meta, "creator")), "")]

-----------------------------------------------------------------------------

NoIter == [page |-> 0, text_ok |-> FALSE, branch |-> "none", appended |-> 0,
           app_text |-> <<>>, check |-> "none", checked_src |-> 0,
           removed_src |-> 0, recorded |-> FALSE]

NoCalls == [ocr |-> 0, serialize |-> 0, report_save |-> 0, metadata |-> 0,
            open_failed |-> FALSE, serialize_failed |-> FALSE,
            report_write_failed |-> FALSE,
            prerepair |-> "none", opened |-> "none"]

CanFail == faults < MaxFaults

Init ==
    /\ pc = "Backup"
    /\ src_doc \in Docs
    /\ use_ocr \in BOOLEAN
    /\ remove_blank \in BOOLEAN
    /\ extract_images \in BOOLEAN
    \* the missing engine only shows when OCR is asked for
    /\ ocr_available \in (IF use_ocr THEN BOOLEAN ELSE {TRUE})
    /\ working_input = "none"
    /\ i = 0
    /\ page_info = << >>
    /\ new_doc = << >>
    /\ actions = << >>
    /\ errors = << >>
    /\ pages = << >>
    /\ report_file = << >>
    /\ output_file = << >>
    /\ calls = NoCalls
    /\ it = NoIter
    /\ hist = << >>
    /\ faults = 0
    /\ src_meta = SpecMeta
    /\ out_meta = << >>

-----------------------------------------------------------------------------
(* main(): backup, pre-repair *)

\* lines 341-344: backup_file inside try/except
Backup ==
    /\ pc = "Backup"
    /\ \/ /\ actions' = add_action(actions, "Backed up original", 0)
          /\ UNCHANGED <<errors, faults>>
       \/ /\ CanFail
          /\ errors' = add_error(errors, "Backup failed", 0)
          /\ faults' = faults + 1
          /\ UNCHANGED actions
    /\ pc' = "PreRepair"
    /\ UNCHANGED <<src_meta, out_meta, src_doc, use_ocr, remove_blank, extract_images, ocr_available,
                   working_input, i, page_info, new_doc, pages, report_file,
                   output_file, calls, it, hist>>

\* line 352: working_input = inp
FallbackInput == "inp"

\* lines 346-353 with try_simple_repair (109-135), which is given inp
PreRepair ==
    /\ pc = "PreRepair"
    /\ \/ /\ actions' = add_action(add_action(add_action(actions,
                           "Attempting simple PyMuPDF open+save repair", 0),
                           "Original metadata", 0),
                           "Saved intermediate repaired PDF", 0)
          /\ working_input' = "resaved"
          /\ UNCHANGED <<errors, faults>>
       \/ /\ CanFail
          /\ errors' = add_error(errors, "Simple resave failed", 0)
          /\ actions' = add_action(add_action(actions,
                           "Attempting simple PyMuPDF open+save repair", 0),
                           "Proceeding with original input due to resave failure", 0)
          /\ working_input' = FallbackInput
          /\ faults' = faults + 1
    /\ calls' = [calls EXCEPT !.prerepair = "inp"]
    /\ pc' = "Open"
    /\ UNCHANGED <<src_meta, out_meta, src_doc, use_ocr, remove_blank, extract_images, ocr_available,
                   i, page_info, new_doc, pages, report_file, output_file,
                   it, hist>>

-----------------------------------------------------------------------------
(* build_repaired_pdf: open, image extraction *)

LoopPcShort(k) == IF k + 1 < Len(src_doc) THEN "Page" ELSE "Metadata"

\* where "for i in range(len(src_doc))" goes with index k
LoopPc(k) == IF k < Len(src_doc) THEN "Page" ELSE "Metadata"

AfterOpenFailureExits == "Done"

\* main's except (361-362) is followed by the report save (364-368)
AfterOpenFailure == "SaveReport"

OpenedPathOriginal == "inp"

\* line 358: build_repaired_pdf is given working_input, which it opens (202)
OpenedPath == working_input

\* lines 201-203, 212; a raise leaves build_repaired_pdf and lands in
\* main's except (361-362)
OpenSource ==
    /\ pc = "Open"
    /\ \/ /\ actions' = add_action(add_action(actions, "Opening source PDF", 0),
                                   "Source has pages", Len(src_doc))
          /\ pc' = IF extract_images THEN "ExtractImages" ELSE LoopPc(0)
          /\ calls' = [calls EXCEPT !.opened = OpenedPath]
          /\ UNCHANGED <<errors, faults>>
       \/ /\ CanFail
          /\ actions' = add_action(actions, "Opening source PDF", 0)
          /\ errors' = add_error(errors, "Overall repair failed", 0)
          /\ calls' = [calls EXCEPT !.open_failed = TRUE, !.opened = OpenedPath]
          /\ faults' = faults + 1
          /\ pc' = AfterOpenFailure
    /\ UNCHANGED <<src_meta, out_meta, src_doc, use_ocr, remove_blank, extract_images, ocr_available,
                   working_input, i, page_info, new_doc, pages, report_file,
                   output_file, it, hist>>

\* lines 205-209 with extract_images_from_doc (137-162); the per-image
\* actions are not modelled
ExtractImages ==
    /\ pc = "ExtractImages"
    /\ \/ /\ actions' = add_action(add_action(actions, "Extracting images", 0),
                                   "Total images extracted", 0)
          /\ UNCHANGED <<errors, faults>>
       \/ /\ CanFail
          /\ actions' = add_action(actions, "Extracting images", 0)
          /\ errors' = add_error(errors, "Image extraction failed", 0)
          /\ faults' = faults + 1
    /\ pc' = LoopPc(0)
    /\ UNCHANGED <<src_meta, out_meta, src_doc, use_ocr, remove_blank, extract_images, ocr_available,
                   working_input, i, page_info, new_doc, pages, report_file,
                   output_file, calls, it, hist>>

-----------------------------------------------------------------------------
(* build_repaired_pdf: the page loop, lines 214-282 *)

PageThrowsAborts(rec) ==
    /\ errors' = add_error(errors, "Processing page failed", i + 1)
    /\ hist' = Append(hist, rec)
    /\ it' = NoIter
    /\ i' = i + 1
    /\ pc' = "Metadata"

\* The outer "except Exception" of the loop body (280-282): log the error
\* and go on with the next page; report.add_page_entry is not reached.
PageThrows(rec) ==
    /\ errors' = add_error(errors, "Processing page failed", i + 1)
    /\ hist' = Append(hist, rec)
    /\ it' = NoIter
    /\ i' = i + 1
    /\ pc' = LoopPc(i + 1)

\* What get_text can do inside page_has_text (166-172): return (TRUE), or
\* raise (FALSE, a fault).  On a page without text a raise gives the same
\* answer as a return, so only a page with text gets the raising outcome.
ExtractOutcomes(txt) ==
    {TRUE} \cup (IF CanFail /\ strip(txt) # << >> THEN {FALSE} ELSE {})

PruneRequestedNever == FALSE

\* line 263: if remove_blank
PruneRequested == remove_blank

AfterBranch == IF PruneRequested THEN "Prune" ELSE "Record"

\* line 216: src_doc[i] raises
PageLoadFails ==
    /\ pc = "Page"
    /\ CanFail
    /\ faults' = faults + 1
    /\ PageThrows([NoIter EXCEPT !.page = i + 1, !.branch = "load_failed"])
    /\ UNCHANGED <<src_meta, out_meta, src_doc, use_ocr, remove_blank, extract_images, ocr_available,
                   working_input, page_info, new_doc, actions, pages,
                   report_file, output_file, calls>>

\* lines 219-224: the page has text and is copied
PageCopy ==
    /\ pc = "Page"
    /\ page_has_text(src_doc[i + 1], TRUE)
    /\ LET txt == src_doc[i + 1]
           rec == [NoIter EXCEPT !.page = i + 1, !.text_ok = TRUE,
                                 !.branch = "copy"]
           copied == insert_page(new_doc, OutPage(i + 1, "copy", txt))
       IN
       \/ \* insert_pdf raises: nothing appended
          /\ CanFail
          /\ faults' = faults + 1
          /\ PageThrows(rec)
          /\ UNCHANGED <<new_doc, page_info, actions>>
       \/ \* insert_pdf done, the second get_text (line 223) raises
          /\ CanFail
          /\ faults' = faults + 1
          /\ new_doc' = copied
          /\ page_info' = ("page_index" :> i + 1) @@ ("action" :> "copied")
          /\ PageThrows([rec EXCEPT !.appended = 1, !.app_text = txt])
          /\ UNCHANGED actions
       \/ /\ new_doc' = copied
          /\ page_info' = ("page_index" :> i + 1) @@ ("action" :> "copied")
                          @@ ("text_chars" :> text_chars(txt))
          /\ actions' = add_action(actions, "Page copied (has text)", i + 1)
          /\ it' = [rec EXCEPT !.appended = 1, !.app_text = txt]
          /\ pc' = AfterBranch
          /\ UNCHANGED <<errors, hist, i, faults>>
    /\ UNCHANGED <<src_meta, out_meta, src_doc, use_ocr, remove_blank, extract_images, ocr_available,
                   working_input, pages, report_file, output_file, calls>>

\* Rasterize the page and insert it as an image page (240-243, 252-256).
\*   "ok"          the page is created and the image placed on it
\*   "fail_before" get_pixmap, the lookup of the insert method or new_page
\*                 raises: no page is created
\*   "fail_after"  new_page has returned and tobytes or insert_image raises:
\*                 the new, empty page stays in new_doc
\* f is the number of faults before the insertion.
ImageOutcomes(f) ==
    {"ok"} \cup (IF f < MaxFaults THEN {"fail_before", "fail_after"} ELSE {})

ImageInsert(doc, src, outcome) ==
    CASE outcome = "ok"          -> insert_page(doc, OutPage(src, "image", << >>))
      [] outcome = "fail_after"  -> insert_page(doc, OutPage(src, "empty", << >>))
      [] outcome = "fail_before" -> doc

\* ocr_page_to_pdf_bytes (174-189) raises: always when pytesseract is
\* missing (179-180), else as a fault.  The set holds the fault count after
\* the raise; f is the count before the call.
OcrRaises(f) == IF ~ocr_available THEN {f}
                ELSE IF f < MaxFaults THEN {f + 1} ELSE {}

OcrRequestedAlways == TRUE

\* line 228: if use_ocr
OcrRequested == use_ocr

\* lines 225-249: no text, OCR mode
PageOcr ==
    /\ pc = "Page"
    /\ OcrRequested
    /\ \E ext_ok \in ExtractOutcomes(src_doc[i + 1]) :
         /\ ~page_has_text(src_doc[i + 1], ext_ok)
         /\ LET f0 == IF ext_ok THEN faults ELSE faults + 1
                base == ("page_index" :> i + 1) @@ ("action" :> "no_text")
                rec == [NoIter EXCEPT !.page = i + 1, !.branch = "ocr"]
                act0 == add_action(actions, "Page no text detected", i + 1)
            IN
            /\ calls' = [calls EXCEPT !.ocr = @ + 1]
            /\ \/ \* ocr_page_to_pdf_bytes, fitz.open and insert_pdf succeed
                  /\ ocr_available
                  /\ \E t \in OcrTexts :
                       /\ new_doc' = insert_page(new_doc, OutPage(i + 1, "ocr", t))
                       /\ it' = [rec EXCEPT !.appended = 1, !.app_text = t,
                                            !.branch = "ocr_applied"]
                  /\ page_info' = base @@ ("ocr" :> "applied")
                  /\ actions' = add_action(act0, "Page OCR applied and page inserted", i + 1)
                  /\ faults' = f0
                  /\ UNCHANGED errors
               \/ \* OCR raises (engine missing, or a fault): image fallback
                  \E f1 \in OcrRaises(f0) :
                       \E o \in ImageOutcomes(f1) :
                            /\ new_doc' = ImageInsert(new_doc, i + 1, o)
                            /\ it' = [rec EXCEPT
                                        !.appended = Len(ImageInsert(new_doc, i + 1, o))
                                                     - Len(new_doc),
                                        !.branch = IF o = "ok" THEN "ocr_failed_image"
                                                   ELSE "ocr_failed_image_failed"]
                            /\ page_info' = IF o = "ok"
                                 THEN base @@ ("ocr" :> "failed")
                                           @@ ("fallback_image_inserted" :> TRUE)
                                 ELSE base @@ ("ocr" :> "failed")
                                           @@ ("fallback_error" :> "error")
                            /\ actions' = IF o = "ok"
                                 THEN add_action(act0, "Page fallback image-insert used", i + 1)
                                 ELSE act0
                            /\ errors' = IF o = "ok"
                                 THEN add_error(errors, "Page OCR failed", i + 1)
                                 ELSE add_error(add_error(errors, "Page OCR failed", i + 1),
                                                "Page fallback image insert failed", i + 1)
                            /\ faults' = IF o = "ok" THEN f1 ELSE f1 + 1
    /\ pc' = AfterBranch
    /\ UNCHANGED <<src_meta, out_meta, src_doc, use_ocr, remove_blank, extract_images, ocr_available,
                   working_input, i, pages, report_file, output_file, hist>>

\* lines 225-227, 250-261: no text, no OCR
PageImage ==
    /\ pc = "Page"
    /\ ~OcrRequested
    /\ \E ext_ok \in ExtractOutcomes(src_doc[i + 1]) :
         /\ ~page_has_text(src_doc[i + 1], ext_ok)
         /\ LET f0 == IF ext_ok THEN faults ELSE faults + 1
                base == ("page_index" :> i + 1) @@ ("action" :> "no_text")
                rec == [NoIter EXCEPT !.page = i + 1, !.branch = "image"]
                act0 == add_action(actions, "Page no text detected", i + 1)
            IN \E o \in ImageOutcomes(f0) :
                 /\ new_doc' = ImageInsert(new_doc, i + 1, o)
                 /\ it' = [rec EXCEPT
                             !.appended = Len(ImageInsert(new_doc, i + 1, o))
                                          - Len(new_doc),
                             !.branch = IF o = "ok" THEN "image_inserted"
                                        ELSE "image_failed"]
                 /\ page_info' = IF o = "ok"
                                 THEN base @@ ("image_inserted" :> TRUE)
                                 ELSE base @@ ("image_error" :> "error")
                 /\ actions' = IF o = "ok"
                               THEN add_action(act0, "Page inserted as image (no OCR mode)", i + 1)
                               ELSE act0
                 /\ errors' = IF o = "ok" THEN errors
                              ELSE add_error(errors, "Page image insertion failed", i + 1)
                 /\ faults' = IF o = "ok" THEN f0 ELSE f0 + 1
    /\ pc' = AfterBranch
    /\ UNCHANGED <<src_meta, out_meta, src_doc, use_ocr, remove_blank, extract_images, ocr_available,
                   working_input, i, pages, report_file, output_file, calls, hist>>

KeepLastPage(doc) == doc

CheckFailedPageDropped(doc) == delete_last(doc)

\* lines 273-275: "be conservative - keep it"
CheckFailedPage(doc) == doc

\* lines 268-270: the last page is blank, delete_page(-1)
PruneLastPage(doc) == delete_last(doc)

\* lines 263-275: the blank check on new_doc[-1]
PruneBlank ==
    /\ pc = "Prune"
    /\ \/ \* line 265: new_doc[-1] of an empty document raises IndexError,
          \* outside the inner try, so the outer except takes it
          /\ Len(new_doc) = 0
          /\ PageThrows([it EXCEPT !.check = "index_error"])
          /\ UNCHANGED <<new_doc, page_info, actions, faults>>
       \/ /\ Len(new_doc) > 0
          /\ LET last_page == new_doc[Len(new_doc)] IN
             \/ \* get_text raises: keep the page (273-275)
                /\ CanFail
                /\ faults' = faults + 1
                /\ it' = [it EXCEPT !.check = "failed",
                                    !.checked_src = last_page.src]
                /\ new_doc' = CheckFailedPage(new_doc)
                /\ UNCHANGED <<page_info, actions>>
             \/ /\ strip(last_page.text) = << >>
                /\ new_doc' = PruneLastPage(new_doc)
                /\ page_info' = page_info @@ ("removed_blank" :> TRUE)
                /\ actions' = add_action(actions, "Page removed blank page after processing", i + 1)
                /\ it' = [it EXCEPT !.check = "blank",
                                    !.checked_src = last_page.src,
                                    !.removed_src = last_page.src]
                /\ UNCHANGED faults
             \/ /\ strip(last_page.text) # << >>
                /\ it' = [it EXCEPT !.check = "text",
                                    !.checked_src = last_page.src]
                /\ UNCHANGED <<new_doc, page_info, actions, faults>>
          /\ pc' = "Record"
          /\ UNCHANGED <<errors, hist, i>>
    /\ UNCHANGED <<src_meta, out_meta, src_doc, use_ocr, remove_blank, extract_images, ocr_available,
                   working_input, pages, report_file, output_file, calls>>

\* lines 277-278: report.add_page_entry(i+1, page_info)
RecordPage ==
    /\ pc = "Record"
    /\ pages' = add_page_entry(pages, i + 1, page_info)
    /\ hist' = Append(hist, [it EXCEPT !.recorded = TRUE])
    /\ it' = NoIter
    /\ i' = i + 1
    /\ pc' = LoopPc(i + 1)
    /\ UNCHANGED <<src_meta, out_meta, src_doc, use_ocr, remove_blank, extract_images, ocr_available,
                   working_input, page_info, new_doc, actions, errors,
                   report_file, output_file, calls, faults>>

-----------------------------------------------------------------------------
(* build_repaired_pdf: metadata and save; main(): report *)

AfterMetadataSkipsSave == "SaveReport"

\* set_metadata returned: the save at 301-305 comes next
AfterMetadata == "Serialize"

AfterMetadataFailureRaise == "SaveReport"

\* the except at 298-299 swallows the failure: the save comes next
AfterMetadataFailure == "Serialize"

\* lines 284-299
Metadata ==
    /\ pc = "Metadata"
    /\ calls' = [calls EXCEPT !.metadata = @ + 1]
    /\ actions' = add_action(actions, "Copying metadata", 0)
    /\ \/ /\ out_meta' = <<meta_fixed(src_meta)>>
          /\ pc' = AfterMetadata
          /\ UNCHANGED <<errors, faults>>
       \/ /\ CanFail
          /\ faults' = faults + 1
          /\ errors' = add_error(errors, "Failed to set metadata on final doc", 0)
          /\ pc' = AfterMetadataFailure
          /\ UNCHANGED out_meta
    /\ UNCHANGED <<src_meta, src_doc, use_ocr, remove_blank, extract_images, ocr_available,
                   working_input, i, page_info, new_doc, pages, report_file,
                   output_file, it, hist>>

\* lines 301-312; the raise at 309 lands in main's except (361-362)
Serialize ==
    /\ pc = "Serialize"
    /\ \/ /\ output_file' = <<new_doc>>
          /\ actions' = add_action(actions, "Saved final repaired PDF", 0)
          /\ calls' = [calls EXCEPT !.serialize = @ + 1]
          /\ UNCHANGED <<errors, faults>>
       \/ /\ CanFail
          /\ faults' = faults + 1
          /\ errors' = add_error(add_error(errors, "Failed saving final PDF", 0),
                                 "Overall repair failed", 0)
          /\ calls' = [calls EXCEPT !.serialize = @ + 1, !.serialize_failed = TRUE]
          /\ UNCHANGED <<output_file, actions>>
    /\ pc' = "SaveReport"
    /\ UNCHANGED <<src_meta, out_meta, src_doc, use_ocr, remove_blank, extract_images, ocr_available,
                   working_input, i, page_info, new_doc, pages, report_file,
                   it, hist>>

\* lines 364-368 with RepairReport.save (85-91): json.dump, then add_action
SaveReport ==
    /\ pc = "SaveReport"
    /\ \/ /\ report_file' = <<report_data>>
          /\ actions' = add_action(actions, "Saved JSON report", 0)
          /\ calls' = [calls EXCEPT !.report_save = @ + 1]
          /\ UNCHANGED faults
       \/ /\ CanFail
          /\ faults' = faults + 1
          /\ calls' = [calls EXCEPT !.report_save = @ + 1,
                                    !.report_write_failed = TRUE]
          /\ UNCHANGED <<report_file, actions>>
    /\ pc' = "Done"
    /\ UNCHANGED <<src_meta, out_meta, src_doc, use_ocr, remove_blank, extract_images, ocr_available,
                   working_input, i, page_info, new_doc, errors, pages,
                   output_file, it, hist>>

-----------------------------------------------------------------------------

Next ==
    \/ Backup
    \/ PreRepair
    \/ OpenSource
    \/ ExtractImages
    \/ PageLoadFails
    \/ PageCopy
    \/ PageOcr
    \/ PageImage
    \/ PruneBlank
    \/ RecordPage
    \/ Metadata
    \/ Serialize
    \/ SaveReport

Spec == Init /\ [][Next]_vars

\* main() is one sequential run: whenever a stage can run, it does
FairSpec == Spec /\ WF_vars(Next)

-----------------------------------------------------------------------------
(* The metadata merge on every source metadata *)

\* The state in which the metadata merge starts in the run where nothing
\* failed on a source of no pages, for every metadata dict of the source
MetaInit ==
    /\ pc = "Metadata"
    /\ src_doc = << >>
    /\ use_ocr = FALSE
    /\ remove_blank = FALSE
    /\ extract_images = FALSE
    /\ ocr_available = TRUE
    /\ working_input = "resaved"
    /\ i = 0
    /\ page_info = << >>
    /\ new_doc = << >>
    /\ actions = << Msg("Backed up original", 0),
                    Msg("Attempting simple PyMuPDF open+save repair", 0),
                    Msg("Original metadata", 0),
                    Msg("Saved intermediate repaired PDF", 0),
                    Msg("Opening source PDF", 0),
                    Msg("Source has pages", 0) >>
    /\ errors = << >>
    /\ pages = << >>
    /\ report_file = << >>
    /\ output_file = << >>
    /\ calls = [NoCalls EXCEPT !.prerepair = "inp", !.opened = "resaved"]
    /\ it = NoIter
    /\ hist = << >>
    /\ faults = 0
    /\ src_meta \in MetaDicts
    /\ out_meta = << >>

MetaNext ==
    \/ Metadata
    \/ Serialize
    \/ SaveReport

MetaSpec == MetaInit /\ [][MetaNext]_vars

-----------------------------------------------------------------------------
(* Helpers of the properties *)

\* The page loop of build_repaired_pdf has finished
LoopDone == pc \in {"Metadata", "Serialize"}

\* Every iteration so far, the running one included
Iterations == { hist[k] : k \in 1..Len(hist) } \cup (IF it.page = 0 THEN {} ELSE {it})

Entries == { pages[k] : k \in 1..Len(pages) }

EntriesOf(n) == { e \in Entries : e["page"] = n }

HasField(e, f) == f \in DOMAIN e

OutputHas(n) == \E p \in 1..Len(new_doc) : new_doc[p].src = n

HasError(m) == \E k \in 1..Len(errors) : errors[k].msg = m

-----------------------------------------------------------------------------
(* C1 *)

\* C1: when the page loop has finished, the report's pages list holds
\* exactly one entry per source page, also for pages that were pruned or
\* whose processing threw.
C1_OneOutcomePerSourcePage ==
    LoopDone => /\ Len(pages) = Len(src_doc)
                /\ \A n \in 1..Len(src_doc) : Cardinality(EntriesOf(n)) = 1

-----------------------------------------------------------------------------
(* C2 *)

\* C2: in every state of the run the output pages are ordered by the
\* source page they were derived from: a page derived from source page a
\* precedes every page derived from a source page b > a.
C2_PageOrder ==
    \A p, q \in 1..Len(new_doc) :
        new_doc[p].src < new_doc[q].src => p < q

\* Pruning is on, page 1 was copied and kept, page 2 was rebuilt and appended
C2_Witness ==
    /\ remove_blank
    /\ pc = "Prune"
    /\ Len(new_doc) = 2
    /\ new_doc[1].kind = "copy"
    /\ new_doc[2].kind \in {"ocr", "image"}

-----------------------------------------------------------------------------
(* C3 *)

\* C3: the blank check run while processing source page n inspects, and can
\* remove, only the output page that was appended for source page n in that
\* iteration, never a page derived from an earlier source page.
C3_PruneOnlyJustAppended ==
    \A r \in Iterations :
        /\ r.checked_src # 0 => (r.checked_src = r.page /\ r.appended = 1)
        /\ r.removed_src # 0 => (r.removed_src = r.page /\ r.appended = 1)

-----------------------------------------------------------------------------
(* C4 *)

-----------------------------------------------------------------------------
(* C5 *)

\* C5 as stated: every entry of a page classified as having text is
\* "copied" and its text_chars is the length of the page's text after
\* trimming leading and trailing whitespace.
C5_TextCharsTrimmed ==
    /\ \A r \in Iterations :
         (r.text_ok /\ r.recorded) =>
            \A e \in EntriesOf(r.page) : e["action"] = "copied"
    /\ \A e \in Entries :
         e["action"] = "copied" =>
            e["text_chars"] = Len(strip(src_doc[e["page"]]))

\* C5 amended: every entry of a page classified as having text is "copied"
\* and its text_chars is the length of the page's extracted text as it is,
\* leading and trailing whitespace counted.
C5_TextCharsRaw ==
    /\ \A r \in Iterations :
         (r.text_ok /\ r.recorded) =>
            /\ EntriesOf(r.page) # {}
            /\ \A e \in EntriesOf(r.page) : e["action"] = "copied"
    /\ \A e \in Entries :
         e["action"] = "copied" =>
            /\ HasField(e, "text_chars")
            /\ e["text_chars"] = Len(src_doc[e["page"]])

\* A copied page whose text has surrounding whitespace has its entry
C5_Witness ==
    \E e \in Entries :
        /\ e["action"] = "copied"
        /\ strip(src_doc[e["page"]]) # src_doc[e["page"]]

-----------------------------------------------------------------------------
(* C6 *)

\* C6: with OCR on, when OCR failed for a page and the fallback image
\* insertion went through, the final output holds the rasterized page of
\* that source page and its entry says fallback_image_inserted; the entry
\* says fallback_error exactly when the fallback insertion failed too.
C6_OcrFailureKeepsImagePage ==
    (LoopDone /\ use_ocr) =>
      \A r \in Iterations :
        /\ r.branch = "ocr_failed_image" =>
              /\ \E p \in 1..Len(new_doc) :
                    new_doc[p].src = r.page /\ new_doc[p].kind = "image"
              /\ \E e \in EntriesOf(r.page) : HasField(e, "fallback_image_inserted")
        /\ r.branch \in {"ocr_failed_image", "ocr_failed_image_failed"} =>
              \A e \in EntriesOf(r.page) :
                 HasField(e, "fallback_error") <=> r.branch = "ocr_failed_image_failed"

-----------------------------------------------------------------------------
(* C7 *)

\* C7: a no-text page appends exactly one output page when its outcome is
\* ocr_applied, ocr_failed_fallback_image or image_inserted, and none when
\* its image insertion failed.
C7_ZeroOrOnePageAppended ==
    \A r \in Iterations :
        /\ r.appended \in {0, 1}
        /\ r.branch \in {"ocr_applied", "ocr_failed_image", "image_inserted"}
              => r.appended = 1
        /\ r.branch \in {"ocr_failed_image_failed", "image_failed"}
              => r.appended = 0

-----------------------------------------------------------------------------
(* C8 *)

\* C8: with OCR off, the OCR step is never called and no page entry, nor
\* the page_info being built, carries an "ocr" field.
C8_NoOcrWhenDisabled ==
    ~use_ocr =>
        /\ calls.ocr = 0
        /\ \A e \in Entries : ~HasField(e, "ocr")
        /\ ~HasField(page_info, "ocr")

\* OCR is off and two pages without text have their entries
C8_Witness ==
    /\ ~use_ocr
    /\ Len(pages) = 2
    /\ \A e \in Entries : e["action"] = "no_text"

-----------------------------------------------------------------------------
(* C9 *)

\* C9: every run reaches Done, whatever failed on the way, and by then
\* report.save has been called exactly once (never more than once before),
\* and the report is on disk unless that write itself failed.
C9_DoneWithReportFlushedOnce ==
    /\ <>(pc = "Done")
    /\ [](calls.report_save <= 1 /\ Len(report_file) <= 1)
    /\ [](pc = "Done" =>
            /\ calls.report_save = 1
            /\ ~calls.report_write_failed => Len(report_file) = 1)

\* A run whose source could not be opened is done, its report written
C9_Witness ==
    /\ pc = "Done"
    /\ calls.open_failed
    /\ HasError("Backup failed")
    /\ Len(report_file) = 1

-----------------------------------------------------------------------------
(* C10 *)

\* C10: at the end of a run "Overall repair failed" is recorded exactly
\* when opening the working input or saving the output raised, and then no
\* output was written; in every run where the open went through the save
\* was attempted once, whatever else failed.
C10_FailedIffOpenOrSerialize ==
    pc \in {"SaveReport", "Done"} =>
        /\ HasError("Overall repair failed")
              <=> (calls.open_failed \/ calls.serialize_failed)
        /\ HasError("Overall repair failed") <=> output_file = << >>
        /\ calls.open_failed => calls.serialize = 0
        /\ ~calls.open_failed => calls.serialize = 1

\* A page failure and a metadata failure, and the output was still written
C10_Witness ==
    /\ pc = "Done"
    /\ HasError("Processing page failed")
    /\ HasError("Failed to set metadata on final doc")
    /\ ~HasError("Overall repair failed")
    /\ Len(output_file) = 1

-----------------------------------------------------------------------------
(* C11 *)

\* C11: pre-repair is run on the original input before build_repaired_pdf
\* opens anything; once it has run, the source document of the page loop,
\* the metadata merge and the save is the one opened from the resaved file
\* if it succeeded and from the original input if it failed; a failure is
\* logged as an error, and the run still processes every page when the
\* open goes through.
C11_PreRepairSelectsInput ==
    /\ pc \in {"Backup", "PreRepair"} =>
          /\ calls.opened = "none"
          /\ working_input = "none"
          /\ new_doc = << >> /\ hist = << >>
    /\ pc \notin {"Backup", "PreRepair"} =>
          /\ calls.prerepair = "inp"
          /\ working_input = (IF HasError("Simple resave failed")
                              THEN "inp" ELSE "resaved")
    /\ pc \notin {"Backup", "PreRepair", "Open"} =>
          calls.opened = working_input
    /\ (pc = "Done" /\ HasError("Simple resave failed") /\ ~calls.open_failed) =>
          /\ Len(hist) = Len(src_doc)
          /\ calls.metadata = 1
          /\ calls.serialize = 1

\* The resave failed and the second page is being processed from the
\* original input
C11_Witness ==
    /\ HasError("Simple resave failed")
    /\ pc = "Page"
    /\ i = 1
    /\ calls.opened = "inp"

-----------------------------------------------------------------------------
(* C12 *)

Own(k) == get(src_meta, k)

Alt(k) == CASE k = "creator"  -> get(src_meta, "producer")
            [] k = "producer" -> get(src_meta, "creator")
            [] OTHER          -> None

Empty(v) == v \in {None, ""}

\* C12 as stated: the metadata given to the output has a non-empty value
\* for each of the six keys: the original value, else the value of the
\* alternate key, else a generated default.
C12_AllKeysNonEmpty ==
    out_meta # << >> =>
        \A k \in Keys :
            /\ out_meta[1][k] # ""
            /\ ~Empty(Own(k)) => out_meta[1][k] = Own(k)
            /\ (Empty(Own(k)) /\ ~Empty(Alt(k))) => out_meta[1][k] = Alt(k)

\* C12 amended: each key gets its original value, else the value of its
\* alternate key (creator and producer stand in for each other), else its
\* default, which is non-empty for title, author and creator and is the
\* empty string for subject, keywords and producer; so no key is empty
\* whose own or alternate value was non-empty.
C12_ResolutionOrder ==
    out_meta # << >> =>
        /\ DOMAIN out_meta[1] = Keys
        /\ \A k \in Keys :
            /\ ~Empty(Own(k)) => out_meta[1][k] = Own(k)
            /\ (Empty(Own(k)) /\ ~Empty(Alt(k))) => out_meta[1][k] = Alt(k)
            /\ (Empty(Own(k)) /\ Empty(Alt(k))) =>
                  /\ k \in {"title", "author", "creator"} => out_meta[1][k] # ""
                  /\ k \in {"subject", "keywords", "producer"} => out_meta[1][k] = ""

\* The creator is taken from the producer, the subject is missing and the
\* keywords are empty
C12_Witness ==
    /\ out_meta # << >>
    /\ Empty(Own("creator")) /\ ~Empty(Own("producer"))
    /\ "subject" \notin DOMAIN src_meta
    /\ Own("keywords") = ""
    /\ out_meta[1]["creator"] = "producer"

-----------------------------------------------------------------------------
(* C13 *)

CopyFailed(r) == r.branch = "copy" /\ ~r.recorded

OcrFailed(r) == r.branch \in {"ocr_failed_image", "ocr_failed_image_failed"}

ImageFailed(r) == r.branch \in {"image_failed", "ocr_failed_image_failed"}

LoadFailed(r) == r.branch = "load_failed"

\* get_text raised inside page_has_text on a page that has text
ExtractFailed(r) ==
    r.branch # "load_failed" /\ ~r.text_ok /\ strip(src_doc[r.page]) # << >>

Decision(e) ==
    CASE e["action"] = "copied"                                  -> "copied"
      [] HasField(e, "ocr") /\ e["ocr"] = "applied"              -> "ocr_applied"
      [] HasField(e, "fallback_image_inserted")                  -> "ocr_failed_fallback_image"
      [] HasField(e, "image_inserted")                           -> "image_inserted"
      [] OTHER                                                   -> "image_insert_failed"

Expected(n) ==
    IF strip(src_doc[n]) # << >> THEN "copied"
    ELSE IF use_ocr THEN "ocr_applied" ELSE "image_inserted"

\* One output page and one entry per source page, in source order, with
\* the decision its text and the OCR option call for
OnePagePerSourcePage ==
    /\ Len(new_doc) = Len(src_doc)
    /\ Len(pages) = Len(src_doc)
    /\ \A n \in 1..Len(src_doc) :
          /\ new_doc[n].src = n
          /\ pages[n]["page"] = n
          /\ Decision(pages[n]) = Expected(n)

-----------------------------------------------------------------------------
(* C14 *)

\* The output document has its final pages
FinalOutput == pc \in {"Metadata", "Serialize", "SaveReport", "Done"}

\* C14 as stated: every page of the final output has text that is
\* non-empty after trimming, whatever the OCR and pruning options.
C14_EveryOutputPageNonBlank ==
    FinalOutput =>
        \A p \in 1..Len(new_doc) : strip(new_doc[p].text) # << >>

\* C14 amended: with pruning on, every page of the final output has text
\* that is non-empty after trimming, except a page whose own blank check
\* could not extract its text.
C14_PrunedOutputNonBlank ==
    (FinalOutput /\ remove_blank) =>
        \A p \in 1..Len(new_doc) :
            strip(new_doc[p].text) = << >> =>
                \E r \in Iterations :
                    r.page = new_doc[p].src /\ r.appended = 1 /\ r.check = "failed"

\* Pruning is on, a blank page was removed and a page with text is left
C14_Witness ==
    /\ pc = "Serialize"
    /\ remove_blank
    /\ \E r \in Iterations : r.removed_src = r.page /\ r.appended = 1
    /\ Len(new_doc) = 1
    /\ strip(new_doc[1].text) # << >>

-----------------------------------------------------------------------------
(* C15 *)

PageErrors(n) ==
    { k \in 1..Len(errors) :
        errors[k].msg = "Processing page failed" /\ errors[k].n = n }

\* The step logs an error caught by the loop's outer except
PageErrorLogged ==
    /\ Len(errors') = Len(errors) + 1
    /\ errors'[Len(errors')].msg = "Processing page failed"

-----------------------------------------------------------------------------
(* C16 *)

IsPrefix(a, b) == Len(a) <= Len(b) /\ SubSeq(b, 1, Len(a)) = a

\* C16: every step leaves the entries the actions, errors and pages lists
\* already hold in place and only appends; once the report is written to
\* storage the three lists do not change, so what was written is the
\* report in memory.
C16_ReportAppendOnlyFrozen ==
    /\ [][/\ IsPrefix(actions, actions')
          /\ IsPrefix(errors, errors')
          /\ IsPrefix(pages, pages')]_vars
    /\ [][Len(report_file) = 1 => UNCHANGED <<actions, errors, pages>>]_vars
    /\ [](Len(report_file) = 1 => report_file[1] = report_data)

-----------------------------------------------------------------------------
(* C17 *)

\* C17: with pruning on, when the blank check of the page just appended
\* for source page n cannot extract its text, the check removes nothing and
\* leaves the page last in the output, removed_blank is not set, the entry
\* of n is recorded with its decision, and no error leaves the processing
\* of n.  (Afterwards the page is in the output unless the check of a
\* later page removes it.)
C17_CheckFailureKeepsPage ==
    remove_blank =>
      \A r \in Iterations :
        (r.check = "failed" /\ r.appended = 1) =>
          /\ r.removed_src = 0
          /\ \/ OutputHas(r.page)
             \/ \E r2 \in Iterations : r2.page > r.page /\ r2.removed_src = r.page
          /\ r = it =>
                /\ pc = "Record"
                /\ new_doc[Len(new_doc)].src = r.page
                /\ HasField(page_info, "action")
                /\ ~HasField(page_info, "removed_blank")
          /\ r # it =>
                /\ r.recorded
                /\ Cardinality(EntriesOf(r.page)) = 1
                /\ \A e \in EntriesOf(r.page) :
                      HasField(e, "action") /\ ~HasField(e, "removed_blank")
                /\ PageErrors(r.page) = {}

\* A rasterized page, blank to the pruner, was kept because its check
\* failed, and its entry is in the report
C17_Witness ==
    /\ remove_blank
    /\ Len(hist) >= 1
    /\ hist[1].check = "failed"
    /\ hist[1].appended = 1
    /\ hist[1].branch = "image_inserted"
    /\ hist[1].recorded
    /\ OutputHas(1)

-----------------------------------------------------------------------------
(* C18 *)

\* C18: the output is saved at most once, and only after every source page
\* has been processed and the metadata merge attempted; once the metadata
\* merge is next, no page is appended to or removed from the output; the
\* report is saved only after the save of the output was attempted or the
\* open failed, and nothing is saved after it.
C18_StageOrder ==
    /\ [](/\ calls.serialize <= 1
          /\ calls.metadata <= 1
          /\ calls.metadata = 1 => (Len(hist) = Len(src_doc) /\ it.page = 0)
          /\ calls.serialize = 1 => calls.metadata = 1
          /\ calls.report_save >= 1 => (calls.serialize = 1 \/ calls.open_failed)
          /\ output_file # << >> => calls.serialize = 1)
    /\ [][(pc = "Metadata" \/ calls.metadata >= 1) => new_doc' = new_doc]_vars
    /\ [][calls.report_save >= 1 =>
             (calls.serialize' = calls.serialize /\ output_file' = output_file)]_vars

\* Two pages were processed, the metadata merged, the output saved and the
\* report written, in that order
C18_Witness ==
    /\ pc = "Done"
    /\ Len(hist) = 2
    /\ calls.metadata = 1
    /\ calls.serialize = 1
    /\ ~calls.serialize_failed
    /\ calls.report_save = 1
    /\ Len(report_file) = 1

-----------------------------------------------------------------------------
(* C19 *)

\* The loop classified the page of r as lacking text
ClassifiedNoText(r) == r.branch # "load_failed" /\ ~r.text_ok

====
